---- MODULE Spec2Model ----
(***************************************************************************)
(* The versioned page store of strapdown-server.go: save_and_commit (disk  *)
(* write, staging, commit on HEAD), getFileOfVersion / getFile (walk of    *)
(* the first-parent chain by identifier prefix) and the part of handle     *)
(* that routes a request to them.                                          *)
(*                                                                         *)
(* A path is a sequence of tokens ("/" is a token), an identifier is a     *)
(* sequence of 40 hexadecimal characters, a version is a sequence of       *)
(* characters.  Every request handler (one goroutine per request in        *)
(* net/http) is a process; its steps are the system calls and libgit2      *)
(* calls of the code, each of which may fail where the code checks err.    *)
(***************************************************************************)
EXTENDS Integers, Sequences, FiniteSets, TLC

\* ------------------------------------------------------------------ bounds
\* Number of save requests that may be started (each may create a commit).
MaxSaves == 2

\* ------------------------------------------------------- program constants
MinVersionLen == 4
MaxVersionLen == 40
\* Length of commit.Id().String(): a SHA-1 in hexadecimal.
IdLen == 40

\* ------------------------------------------------------------------ inputs
\* Concurrent request handlers.
Procs == {"g1", "g2"}

\* r.URL.Path[1:] of the requests.  None of them names an existing file or
\* directory (the server only creates "*.md" files), so the os.Stat branch
\* of handle (lines 253-294) is not taken.
UrlA    == <<"a">>
UrlDB   == <<"d", "/", "b">>
UrlGit  == <<".git">>
UrlGitX == <<".git", "/", "x">>
\* Paths holding "..": one leaves the root, one re-enters it at .git.
UrlUp    == <<"..", "/", "a">>
UrlUpGit == <<"d", "/", "..", "/", ".git", "/", "x">>
Urls == {UrlA, UrlDB, UrlGit, UrlGitX, UrlUp, UrlUpGit}

\* r.FormValue("body")
Bodies == {"hello", "world"}

\* Values standing for Go's nil, a file that does not exist, an unborn HEAD.
Nil    == "<nil>"
Absent == "<absent>"
NoHead == <<>>

\* ----------------------------------------------------------------- helpers
\* fp = r.URL.Path[1:] + ".md"
MdPath(u) == u \o <<".md">>

\* A comparison with ".git" alone, without the prefix test.
IsGitPathExact(u) == u = <<".git">>

\* strings.HasPrefix(fp, ".git/") || fp == ".git"
IsGitPath(u) ==
    \/ u = <<".git">>
    \/ Len(u) >= 2 /\ u[1] = ".git" /\ u[2] = "/"

\* The elements of a path: its tokens other than "/".
Segs(u) == SelectSeq(u, LAMBDA t : t # "/")

\* path.Clean on the elements of a rooted path: "." is dropped, ".." drops
\* the element before it, and is dropped itself at the root.
RECURSIVE CleanSegs(_, _)
CleanSegs(segs, acc) ==
    IF segs = <<>> THEN acc
    ELSE IF Head(segs) = "." THEN CleanSegs(Tail(segs), acc)
    ELSE IF Head(segs) = ".."
         THEN CleanSegs(Tail(segs),
                        IF acc = <<>> THEN <<>> ELSE SubSeq(acc, 1, Len(acc) - 1))
         ELSE CleanSegs(Tail(segs), Append(acc, Head(segs)))

\* The elements joined by "/".
RECURSIVE Join(_)
Join(segs) ==
    IF Len(segs) <= 1 THEN segs
    ELSE <<Head(segs), "/">> \o Join(Tail(segs))

\* cleanPath of net/http's ServeMux, on r.URL.Path[1:].
CleanPath(u) == Join(CleanSegs(Segs(u), <<>>))

\* The paths the ServeMux passes to handle: those already clean.
Routed == {u \in Urls : CleanPath(u) = u}

\* The page files the requests can name.
Files == {MdPath(u) : u \in {x \in Routed : ~IsGitPath(x)}}

\* path.Dir(fp): everything before the last "/", "." when there is none.
LastSlash(f) ==
    LET S == {i \in 1..Len(f) : f[i] = "/"}
    IN  IF S = {} THEN 0 ELSE CHOOSE i \in S : \A j \in S : j <= i

Dir(f) == IF LastSlash(f) = 0 THEN <<".">> ELSE SubSeq(f, 1, LastSlash(f) - 1)

\* An identifier of 40 hexadecimal characters; only positions 1, 5 and 40
\* vary in the pool.
MkId(c1, c5, c40) ==
    [i \in 1..IdLen |-> IF i = 1 THEN c1
                        ELSE IF i = 5 THEN c5
                        ELSE IF i = IdLen THEN c40 ELSE "0"]

\* The identifiers CreateCommit may produce (SHA-1 digests of commits that
\* differ in parent, tree or time).  IdA and IdA5 share their first 4
\* characters, IdB shares none with them.
IdA   == MkId("a", "0", "0")
IdA5  == MkId("a", "1", "0")
IdB   == MkId("b", "0", "0")
IdPool == {IdA, IdA5, IdB}

\* A comparison of the first 4 characters only.
PrefixMatchesFirst4(id, version) ==
    SubSeq(id, 1, MinVersionLen) = SubSeq(version, 1, MinVersionLen)

\* commit.Id().String()[0:len(version)] == version
PrefixMatches(id, version) == SubSeq(id, 1, Len(version)) = version

\* The version strings of the requests: prefixes of identifiers of every
\* interesting length, a string matching nothing, an overlong string and
\* the empty string.
Versions ==
    {SubSeq(IdA, 1, n) : n \in {3, 4, IdLen}}
    \cup {SubSeq(IdA5, 1, 5), <<"f", "f", "f", "f">>, Append(IdA, "0"), <<>>}

\* The index repo.Index() loads from .git/index.  The program never calls
\* index.Write(), so the file stays as "git init" left it: no entry.
RepoIndex == [f \in Files |-> Absent]

\* index.AddByPath(fp) on the freshly loaded index, then index.WriteTree():
\* the tree holds the loaded index plus the one path added.
AddByPath(index, f, blob) == [index EXCEPT ![f] = blob]

\* tree.EntryByName(fileName): compares fileName with the names of the
\* entries of the root tree only; a name holding "/" names no entry.
EntryByName(tree, f) ==
    IF LastSlash(f) = 0 /\ tree[f] # Absent THEN tree[f] ELSE Nil

\* ------------------------------------------------------------------- state
VARIABLES
    disk,      \* file path -> content on disk, or Absent
    dirs,      \* directories created under the root
    commits,   \* identifier -> commit object stored in .git
    head,      \* target of HEAD, NoHead while the branch is unborn
    pc,        \* per handler: the step it is at
    req,       \* per handler: [op, url, fp, body, version] of its request
    tree,      \* per handler: tree written by index.WriteTree()
    tip,       \* per handler: currentTip read at lines 110-112
    result,    \* per handler: [err, val, code] when its request has ended
    log,       \* per handler: what its call did (read by the properties)
    saves      \* number of save requests started

vars == <<disk, dirs, commits, head, pc, req, tree, tip, result, log, saves>>

NoReq    == [op |-> "none", url |-> <<>>, fp |-> <<>>, body |-> Nil, version |-> <<>>]
NoResult == [err |-> "none", val |-> Nil, code |-> 0]
NoLog    == [made |-> {}, diskErr |-> FALSE, rev |-> NoHead, visited |-> <<>>,
             why |-> "none"]
NoTree   == RepoIndex

Init ==
    /\ disk = [f \in Files |-> Absent]
    /\ dirs = {}
    /\ commits = <<>>
    /\ head = NoHead
    /\ pc = [p \in Procs |-> "idle"]
    /\ req = [p \in Procs |-> NoReq]
    /\ tree = [p \in Procs |-> NoTree]
    /\ tip = [p \in Procs |-> NoHead]
    /\ result = [p \in Procs |-> NoResult]
    /\ log = [p \in Procs |-> NoLog]
    /\ saves = 0

\* The end of a request: what the called function returned (err, val) and
\* the HTTP status handle answers with.
Finish(p, err, val, code) ==
    /\ pc' = [pc EXCEPT ![p] = "ret"]
    /\ result' = [result EXCEPT ![p] = [err |-> err, val |-> val, code |-> code]]

\* The request r of handler p: method, URL path, form body, version.
Request(op, u, b, v) ==
    [op |-> op, url |-> u,
     fp |-> IF IsGitPath(u) THEN <<>> ELSE MdPath(u),
     body |-> b, version |-> v]

\* ------------------------------------------------------------------ handle
\* handle, lines 245-251: a request into .git is answered 403 at once.
HandleForbidden(p) ==
    /\ pc[p] = "idle"
    /\ \E u \in Routed, op \in {"save", "read"} :
          /\ IsGitPath(u)
          /\ req' = [req EXCEPT ![p] = Request(op, u, Nil, <<>>)]
    /\ Finish(p, "Forbidden", Nil, 403)
    /\ UNCHANGED <<disk, dirs, commits, head, tree, tip, log, saves>>

\* http.HandleFunc("/", handle) on the default ServeMux (line 404): a
\* request whose path is not clean is answered by the mux with a redirect
\* (301) to the cleaned path, and handle is not called for it.
ServeMuxRedirect(p) ==
    /\ pc[p] = "idle"
    /\ \E u \in Urls \ Routed, op \in {"save", "read"} :
          req' = [req EXCEPT ![p] = [NoReq EXCEPT !.op = op, !.url = u]]
    /\ Finish(p, "Redirect", Nil, 301)
    /\ UNCHANGED <<disk, dirs, commits, head, tree, tip, log, saves>>

\* --------------------------------------------------------- save_and_commit
\* The error values save_and_commit returns: an *os.PathError from the disk
\* step (lines 71-79), a *git.GitError from the repository steps (81-123).
IOFailure     == "IOFailure"
CommitFailure == "CommitFailure"

\* save_and_commit returned err: handle answers 500 (lines 300-303).
SaveFails(p, err) == Finish(p, err, Nil, 500)

\* Lines 72-74 and 77-79: the disk step failed and its error is returned;
\* the log notes that a disk error happened in this call.
DiskFails(p) ==
    /\ SaveFails(p, IOFailure)
    /\ log' = [log EXCEPT ![p].diskErr = TRUE]

\* handle, lines 296-299: POST or PUT calls save_and_commit(fp, body, ...),
\* whose first step is os.MkdirAll(path.Dir(fp), 0600) (line 71).
HandlePost(p) ==
    /\ pc[p] = "idle"
    /\ saves < MaxSaves
    /\ saves' = saves + 1
    /\ \E u \in Routed, b \in Bodies :
          /\ ~IsGitPath(u)
          /\ req' = [req EXCEPT ![p] = Request("save", u, b, <<>>)]
          /\ \/ /\ dirs' = dirs \cup ({Dir(MdPath(u))} \ {<<".">>})
                /\ pc' = [pc EXCEPT ![p] = "write"]
                /\ UNCHANGED <<result, log>>
             \/ /\ Dir(MdPath(u)) \notin dirs \cup {<<".">>}
                /\ DiskFails(p)
                /\ UNCHANGED dirs
    /\ UNCHANGED <<disk, commits, head, tree, tip>>

\* A write that leaves the file empty.
WrittenNothing(content) == ""

\* The bytes ioutil.WriteFile(fp, content, 0600) leaves in the file.
Written(content) == content

\* Line 76, first half: ioutil.WriteFile opens fp with O_CREATE|O_TRUNC,
\* which leaves an empty file, or fails and leaves the disk as it was.
WriteFileOpen(p) ==
    /\ pc[p] = "write"
    /\ \/ /\ disk' = [disk EXCEPT ![req[p].fp] = ""]
          /\ pc' = [pc EXCEPT ![p] = "writing"]
          /\ UNCHANGED <<result, log>>
       \/ /\ DiskFails(p)
          /\ UNCHANGED disk
    /\ UNCHANGED <<dirs, commits, head, req, tree, tip, saves>>

\* The write with its error ignored: the call goes on to the commit.
WriteFileDataUnchecked(p) ==
    /\ pc[p] = "writing"
    /\ \/ /\ disk' = [disk EXCEPT ![req[p].fp] = req[p].body]
          /\ UNCHANGED log
       \/ /\ log' = [log EXCEPT ![p].diskErr = TRUE]
          /\ UNCHANGED disk
    /\ pc' = [pc EXCEPT ![p] = "stage"]
    /\ UNCHANGED <<dirs, commits, head, req, tree, tip, result, saves>>

\* Line 76, second half: the write of content into the opened file; a
\* failed write leaves the file truncated.
WriteFileData(p) ==
    /\ pc[p] = "writing"
    /\ \/ /\ disk' = [disk EXCEPT ![req[p].fp] = Written(req[p].body)]
          /\ pc' = [pc EXCEPT ![p] = "stage"]
          /\ UNCHANGED <<result, log>>
       \/ /\ DiskFails(p)
          /\ UNCHANGED disk
    /\ UNCHANGED <<dirs, commits, head, req, tree, tip, saves>>

\* Lines 81-102: the tree index.WriteTree() writes.  AddByPath hashes the
\* file as it is on disk at that moment.
StagedTree(f) == AddByPath(RepoIndex, f, disk[f])

\* Lines 81-102: OpenRepository, Index, AddByPath, WriteTree, LookupTree;
\* an error of any of them is returned.
Stage(p) ==
    /\ pc[p] = "stage"
    /\ \/ /\ tree' = [tree EXCEPT ![p] = StagedTree(req[p].fp)]
          /\ pc' = [pc EXCEPT ![p] = "head"]
          /\ UNCHANGED result
       \/ /\ SaveFails(p, CommitFailure)
          /\ UNCHANGED tree
    /\ UNCHANGED <<disk, dirs, commits, head, req, tip, log, saves>>

\* Lines 110-115: repo.Head() (an error while the branch is unborn) and
\* LookupCommit of its target, whose error is returned.
ReadHead(p) ==
    /\ pc[p] = "head"
    /\ \/ /\ tip' = [tip EXCEPT ![p] = head]
          /\ pc' = [pc EXCEPT ![p] = "commit"]
          /\ UNCHANGED result
       \/ /\ head # NoHead
          /\ SaveFails(p, CommitFailure)
          /\ UNCHANGED tip
    /\ UNCHANGED <<disk, dirs, commits, head, req, tree, log, saves>>

\* A commit always created without parents, as at line 118.
CommitParentNone(t) == NoHead

\* Lines 116 and 118: the parents handed to CreateCommit: currentTip, or
\* none when repo.Head() gave no branch.
CommitParent(t) == t

\* The commit object CreateCommit writes (author and time left out).
NewCommit(p) ==
    [parent  |-> CommitParent(tip[p]),
     tree    |-> tree[p],
     message |-> <<"update ">> \o req[p].fp]

\* A CreateCommit that has moved HEAD when it reports an error.
CreateCommitMovesHeadOnError(p) ==
    /\ pc[p] = "commit"
    /\ \E id \in IdPool \ DOMAIN commits :
          /\ commits' = (id :> NewCommit(p)) @@ commits
          /\ head' = id
          /\ log' = [log EXCEPT ![p].made = @ \cup {id}]
          /\ \/ Finish(p, "nil", Nil, 302)
             \/ SaveFails(p, CommitFailure)
    /\ UNCHANGED <<disk, dirs, req, tree, tip, saves>>

\* A commit that is skipped, with success, when the tree is the parent's.
CreateCommitElidesNoChange(p) ==
    /\ pc[p] = "commit"
    /\ IF tip[p] # NoHead /\ commits[tip[p]].tree = tree[p]
       THEN /\ Finish(p, "nil", Nil, 302)
            /\ UNCHANGED <<commits, head, log>>
       ELSE \/ \E id \in IdPool \ DOMAIN commits :
                  /\ commits' = (id :> NewCommit(p)) @@ commits
                  /\ head' = id
                  /\ log' = [log EXCEPT ![p].made = @ \cup {id}]
                  /\ Finish(p, "nil", Nil, 302)
            \/ /\ SaveFails(p, CommitFailure)
               /\ UNCHANGED <<commits, head, log>>
    /\ UNCHANGED <<disk, dirs, req, tree, tip, saves>>

\* A commit that moves HEAD first and may fail to store the object.
CreateCommitHeadFirst(p) ==
    /\ pc[p] = "commit"
    /\ \E id \in IdPool \ DOMAIN commits :
          /\ head' = id
          /\ \/ /\ commits' = (id :> NewCommit(p)) @@ commits
                /\ log' = [log EXCEPT ![p].made = @ \cup {id}]
                /\ Finish(p, "nil", Nil, 302)
             \/ /\ SaveFails(p, CommitFailure)
                /\ UNCHANGED <<commits, log>>
    /\ UNCHANGED <<disk, dirs, req, tree, tip, saves>>

\* Lines 116-124, CreateCommit("HEAD", ...).  libgit2 writes the commit
\* object and then moves the branch HEAD names.  It may fail before
\* writing anything, or after the object is written (the reference could
\* not be updated: it moved since it was read, or the write failed), and
\* when HEAD moved since line 110 it either refuses or commits on the stale
\* parent, depending on the library version.
CreateCommit(p) ==
    /\ pc[p] = "commit"
    /\ \/ \E id \in IdPool \ DOMAIN commits :
             /\ commits' = (id :> NewCommit(p)) @@ commits
             /\ head' = id
             /\ log' = [log EXCEPT ![p].made = @ \cup {id}]
             /\ Finish(p, "nil", Nil, 302)
       \/ \E id \in IdPool \ DOMAIN commits :
             /\ commits' = (id :> NewCommit(p)) @@ commits
             /\ log' = [log EXCEPT ![p].made = @ \cup {id}]
             /\ SaveFails(p, CommitFailure)
             /\ UNCHANGED head
       \/ /\ SaveFails(p, CommitFailure)
          /\ UNCHANGED <<commits, head, log>>
    /\ UNCHANGED <<disk, dirs, req, tree, tip, saves>>

\* ------------------------------------------------------------- plain read
\* Line 336, ioutil.ReadFile(fp): the bytes on disk, Nil with an error
\* when the file does not exist.
ReadFile(f) == IF disk[f] = Absent THEN Nil ELSE disk[f]

\* handle, lines 322 and 334-348 (and the rendering that follows): GET
\* without a version, or with an empty one, serves the content read from
\* disk; a missing file opens the editor with no content.
HandleGet(p) ==
    /\ pc[p] = "idle"
    /\ \E u \in Routed, v \in {x \in Versions : Len(x) = 0} :
          /\ ~IsGitPath(u)
          /\ req' = [req EXCEPT ![p] = Request("read", u, Nil, v)]
          /\ IF ReadFile(MdPath(u)) = Nil
               THEN Finish(p, "NotExist", Nil, 200)
               ELSE Finish(p, "nil", ReadFile(MdPath(u)), 200)
    /\ UNCHANGED <<disk, dirs, commits, head, tree, tip, log, saves>>

\* ------------------------------------------------- getFileOfVersion, getFile
\* The error values getFileOfVersion returns.
HeadError     == "HeadError"
VersionLength == "VersionLength"

\* Line 204: what getFileOfVersion returns when no commit matched.
NoMatch == [val |-> Nil, err |-> "nil"]

\* Line 185: vl < 4 || vl > 40
BadVersionLen(v) == Len(v) < MinVersionLen \/ Len(v) > MaxVersionLen

\* getFile, lines 143-163: the blob of fileName in the commit's tree, Nil
\* (with a nil error) when the tree has no such entry.
GetFile(id, f) == EntryByName(commits[id].tree, f)

\* Line 202, commit.Parent(0): nil for a commit without parents.
Parent0(id) == commits[id].parent

\* A loop that goes on to the root after a match.
RECURSIVE WalkPastMatch(_, _, _)
WalkPastMatch(id, version, seen) ==
    IF id = NoHead THEN [rev |-> NoHead, visited |-> seen]
    ELSE LET rest == WalkPastMatch(commits[id].parent, version, Append(seen, id))
         IN  IF PrefixMatches(id, version)
             THEN [rev |-> id, visited |-> rest.visited]
             ELSE rest

\* Lines 189-204, the loop from commit `id`: rev is the first commit of the
\* first-parent chain whose identifier starts with version (NoHead when the
\* chain ends without one), visited the commits the loop looked at after
\* those in `seen`.
RECURSIVE Walk(_, _, _)
Walk(id, version, seen) ==
    IF id = NoHead THEN [rev |-> NoHead, visited |-> seen]
    ELSE IF PrefixMatches(id, version)
         THEN [rev |-> id, visited |-> Append(seen, id)]
         ELSE Walk(Parent0(id), version, Append(seen, id))

\* getFileOfVersion(fileName, version), lines 165-205, as [val, err, log].
\* repo.Head() fails while the branch is unborn; else the commit HEAD names
\* is looked up, and only then is the length checked and the chain walked.
\* Everything read after repo.Head() is an immutable object, so the call is
\* one step.  (The repository calls are taken to succeed on a repository
\* that has a commit.)
GetFileOfVersion(f, version) ==
    IF head = NoHead
    THEN [val |-> Nil, err |-> HeadError, log |-> NoLog]
    ELSE IF BadVersionLen(version)
    THEN [val |-> Nil, err |-> VersionLength,
          log |-> [NoLog EXCEPT !.visited = <<head>>]]
    ELSE LET w == Walk(head, version, <<>>)
         IN  IF w.rev = NoHead
             THEN [val |-> NoMatch.val, err |-> NoMatch.err,
                   log |-> [NoLog EXCEPT !.visited = w.visited, !.why = "nomatch"]]
             ELSE [val |-> GetFile(w.rev, f), err |-> "nil",
                   log |-> [NoLog EXCEPT !.visited = w.visited, !.rev = w.rev,
                                         !.why = IF GetFile(w.rev, f) = Nil
                                                 THEN "absent" ELSE "found"]]

\* handle, lines 322-333: GET with a non-empty version calls
\* getFileOfVersion(fp, version[0]); an error is answered 400, nil content
\* 404, and content is served.
HandleGetVersion(p) ==
    /\ pc[p] = "idle"
    /\ \E u \in Routed, v \in Versions :
          /\ ~IsGitPath(u)
          /\ Len(v) > 0
          /\ req' = [req EXCEPT ![p] = Request("version", u, Nil, v)]
          /\ LET r == GetFileOfVersion(MdPath(u), v)
             IN  /\ log' = [log EXCEPT ![p] = r.log]
                 /\ Finish(p, r.err, r.val,
                           IF r.err # "nil" THEN 400
                           ELSE IF r.val = Nil THEN 404 ELSE 200)
    /\ UNCHANGED <<disk, dirs, commits, head, tree, tip, saves>>

\* The handler has answered; the goroutine ends and its locals are gone.
Return(p) ==
    /\ pc[p] = "ret"
    /\ pc' = [pc EXCEPT ![p] = "idle"]
    /\ req' = [req EXCEPT ![p] = NoReq]
    /\ tree' = [tree EXCEPT ![p] = NoTree]
    /\ tip' = [tip EXCEPT ![p] = NoHead]
    /\ result' = [result EXCEPT ![p] = NoResult]
    /\ log' = [log EXCEPT ![p] = NoLog]
    /\ UNCHANGED <<disk, dirs, commits, head, saves>>

\* ------------------------------------------------------------ specification
\* One step of handler p serving a POST.
SaveStep(p) ==
    \/ HandlePost(p)
    \/ WriteFileOpen(p)
    \/ WriteFileData(p)
    \/ Stage(p)
    \/ ReadHead(p)
    \/ CreateCommit(p)
    \/ Return(p)

\* One step of handler p.
Step(p) ==
    \/ SaveStep(p)
    \/ ServeMuxRedirect(p)
    \/ HandleForbidden(p)
    \/ HandleGet(p)
    \/ HandleGetVersion(p)

\* Requests served concurrently, one goroutine each.
Next == \E p \in Procs : Step(p)

Spec == Init /\ [][Next]_vars

\* POST requests alone, served concurrently.  A GET changes nothing but the
\* locals of its own handler, so what holds of the saves here holds of
\* them under Spec.
NextSaves == \E p \in Procs : SaveStep(p)

SpecSaves == Init /\ [][NextSaves]_vars

\* Requests served one at a time.
NextSeq == Step("g1")

SpecSeq == Init /\ [][NextSeq]_vars

\* --------------------------------------------------------------- properties
\* Handler p has ended a request of kind op.
Ended(p, op) == pc[p] = "ret" /\ req[p].op = op

\* version is a leading substring of the identifier id.
StartsWith(id, version) ==
    /\ Len(version) <= Len(id)
    /\ \A i \in 1..Len(version) : id[i] = version[i]

\* The revisions on the first-parent chain from id, id included.
RECURSIVE Chain(_)
Chain(id) == IF id = NoHead THEN {} ELSE {id} \cup Chain(commits[id].parent)

\* C1: once a save has returned success, and no other save has run since,
\* the file a plain read of the path reads holds exactly the saved content.
SaveThenReadRoundTrip ==
    \A p \in Procs :
        (Ended(p, "save") /\ result[p].err = "nil")
            => /\ disk[req[p].fp] = req[p].body
               /\ ReadFile(req[p].fp) = req[p].body

\* A save of "world" over a page whose previous revision holds "hello" has
\* returned success.
SaveThenReadWitness ==
    \E p \in Procs :
        /\ Ended(p, "save") /\ result[p].err = "nil"
        /\ req[p].body = "world"
        /\ head # NoHead /\ commits[head].parent # NoHead
        /\ commits[commits[head].parent].tree[req[p].fp] = "hello"

ResolveLocatesPrefixedRevision ==
    \A p \in Procs :
        (Ended(p, "version") /\ ~BadVersionLen(req[p].version))
            => \A r \in Chain(head) :
                  StartsWith(r, req[p].version) => log[p].rev = r

\* C3 as amended: the resolve locates the revision nearest to Head whose
\* identifier starts with the prefix; that is r unless a revision nearer
\* to Head than r starts with the prefix too.
ResolveLocatesNearestPrefixed ==
    \A p \in Procs :
        (Ended(p, "version") /\ ~BadVersionLen(req[p].version))
            => \A r \in Chain(head) :
                  StartsWith(r, req[p].version)
                     => /\ log[p].rev \in Chain(head)
                        /\ StartsWith(log[p].rev, req[p].version)
                        /\ r \in Chain(log[p].rev)
                        /\ \A q \in Chain(head) \ Chain(log[p].rev) :
                              ~StartsWith(q, req[p].version)
                        /\ ((\A q \in Chain(head) \ Chain(r) :
                                ~StartsWith(q, req[p].version))
                              => log[p].rev = r)

\* A resolve by a 4-character prefix has located a revision older than Head.
ResolveLocatesWitness ==
    \E p \in Procs :
        /\ Ended(p, "version")
        /\ Len(req[p].version) = MinVersionLen
        /\ log[p].rev # NoHead /\ log[p].rev # head
        /\ log[p].rev \in Chain(head)

\* C4: when the resolve matched revision r and the path is in the tree of
\* r, at any depth, the resolve returns the bytes the path has in r.
ResolveReturnsRevisionBytes ==
    \A p \in Procs :
        (/\ Ended(p, "version")
         /\ log[p].rev # NoHead
         /\ commits[log[p].rev].tree[req[p].fp] # Absent)
            => result[p].val = commits[log[p].rev].tree[req[p].fp]

\* C5: a resolve whose version is shorter than 4 or longer than 40 fails
\* with the length error in every state of the store, before any commit
\* has been looked up.
BadLengthRejectedFirst ==
    \A p \in Procs :
        (/\ Ended(p, "version")
         /\ (Len(req[p].version) < 4 \/ Len(req[p].version) > 40))
            => /\ result[p].err = VersionLength
               /\ log[p].visited = <<>>

\* C6: a resolve that matched a revision in which the path is absent
\* returns something else than what a resolve that matched no revision
\* returns.
AbsentDistinctFromNoMatch ==
    \A p \in Procs :
        (Ended(p, "version") /\ log[p].why = "absent")
            => [val |-> result[p].val, err |-> result[p].err] # NoMatch

\* C7: the tree of the revision a successful save has just created maps
\* every page on disk to its content, not only the page saved.
TreeHoldsWholeDisk ==
    \A p \in Procs :
        (Ended(p, "save") /\ result[p].err = "nil")
            => \A f \in Files :
                  disk[f] # Absent => commits[head].tree[f] = disk[f]

\* C8: the content a plain read returns is the content of the path in
\* some revision that has been committed.
ReadsSeeCommittedContent ==
    \A p \in Procs :
        (Ended(p, "read") /\ result[p].err = "nil")
            => \E id \in DOMAIN commits :
                  commits[id].tree[req[p].fp] = result[p].val

\* C9: when a disk step of a save fails, the save ends at once with
\* IOFailure, has staged nothing, read no Head and created no revision,
\* and the failing step leaves the revisions and Head as they were.
DiskFailureMakesNoCommit ==
    [][\A p \in Procs :
          log'[p].diskErr
              => /\ pc'[p] = "ret"
                 /\ result'[p].err = IOFailure
                 /\ log'[p].made = {}
                 /\ tree'[p] = NoTree
                 /\ tip'[p] = NoHead
                 /\ (~log[p].diskErr => commits' = commits /\ head' = head)]_vars

\* A save into a store that has a revision has failed in its disk step.
DiskFailureWitness ==
    \E p \in Procs :
        /\ Ended(p, "save") /\ log[p].diskErr
        /\ result[p].err = IOFailure
        /\ head # NoHead

\* C10: when a step after the disk write fails, the save returns
\* CommitFailure, the written content is still on disk and Head is what it
\* was.
CommitFailureKeepsDiskAndHead ==
    [][\A p \in Procs :
          (/\ pc[p] \in {"stage", "head", "commit"}
           /\ pc'[p] = "ret"
           /\ result'[p].err # "nil")
              => /\ result'[p].err = CommitFailure
                 /\ head' = head
                 /\ disk' = disk
                 /\ disk'[req[p].fp] = req[p].body]_vars

\* A save has returned CommitFailure and the disk holds content for the
\* path that the revision at Head does not.
CommitFailureWitness ==
    \E p \in Procs :
        /\ Ended(p, "save") /\ result[p].err = CommitFailure
        /\ head # NoHead
        /\ disk[req[p].fp] = req[p].body
        /\ commits[head].tree[req[p].fp] # req[p].body

\* The path names the repository directory, or a place under it or
\* reached through it.
ReferencesGit(u) == \E i \in 1..Len(u) : u[i] = ".git"

\* The path climbs with "..".
Climbs(u) == \E i \in 1..Len(u) : u[i] = ".."

\* Handler p starts serving a save in this step.
SaveArrives(p) == pc[p] = "idle" /\ req'[p].op = "save"

Persisted(id) ==
    /\ id \in DOMAIN commits
    /\ DOMAIN commits[id].tree = Files
    /\ \A f \in Files : commits[id].tree[f] \in Bodies \cup {"", Absent}
    /\ commits[id].parent # NoHead => commits[id].parent \in DOMAIN commits

\* C12: under any interleaving of saves, Head is either empty, and then no
\* save has committed, or it names a commit that is stored whole with its
\* tree; so is every ancestor.
HeadNamesPersistedRevision ==
    IF head = NoHead
    THEN \A p \in Procs : ~(Ended(p, "save") /\ result[p].err = "nil")
    ELSE /\ Persisted(head)
         /\ \A id \in DOMAIN commits : Persisted(id)

\* Two saves are in flight, one has moved Head to its commit and ended,
\* the other is about to commit.
HeadPersistedWitness ==
    \E p, q \in Procs :
        /\ p # q
        /\ Ended(p, "save") /\ result[p].err = "nil"
        /\ head \in log[p].made
        /\ pc[q] = "commit"

\* Handler p has ended a save with success.
Saved(p) == Ended(p, "save") /\ result[p].err = "nil"

\* C13: under any interleaving the history stays linear: the revisions of
\* two saves that have both succeeded never have the same parent (nor are
\* both without one), so two saves that read the same Head never both
\* commit on it.
HistoryStaysLinear ==
    \A p, q \in Procs :
        (p # q /\ Saved(p) /\ Saved(q))
            => \A i \in log[p].made, j \in log[q].made :
                  commits[i].parent # commits[j].parent

\* A save returns success in this step.
SaveSucceeds ==
    \E p \in Procs :
        pc[p] \in {"write", "writing", "stage", "head", "commit"}
            /\ pc'[p] = "ret" /\ result'[p].err = "nil"

\* C14: a save adds exactly one revision to the store when it succeeds and
\* none when it fails, so the number of revisions is the number of
\* successful saves: every step adds one revision if a save succeeds in it
\* and none otherwise.
OneRevisionPerSuccessfulSave ==
    [][Cardinality(DOMAIN commits') =
          Cardinality(DOMAIN commits) + (IF SaveSucceeds THEN 1 ELSE 0)]_vars

\* C15: a save of the content the revision at Head already holds for the
\* path, when it succeeds, is not elided: Head moves to a new revision
\* with another identifier, whose parent is the old Head and whose entry
\* for the path is the blob the old Head has.
ResaveMakesNewRevision ==
    [][\A p \in Procs :
          (/\ pc[p] = "commit" /\ pc'[p] = "ret" /\ result'[p].err = "nil"
           /\ head # NoHead
           /\ commits[head].tree[req[p].fp] = req[p].body)
              => /\ head' # head
                 /\ head' \notin DOMAIN commits
                 /\ head' \in DOMAIN commits'
                 /\ commits'[head'].parent = head
                 /\ commits'[head'].tree[req[p].fp]
                       = commits[head].tree[req[p].fp]]_vars

\* A save of identical content has succeeded: Head is its new revision, and
\* the parent holds the same content for the path.
ResaveWitness ==
    \E p \in Procs :
        /\ Saved(p) /\ head \in log[p].made
        /\ commits[head].parent # NoHead
        /\ commits[head].tree[req[p].fp] = req[p].body
        /\ commits[commits[head].parent].tree[req[p].fp] = req[p].body

\* C16: once resolve(path, id) with a full 40-character identifier returns
\* content c, it returns c after every later step of any save, successful
\* or failed, to any path, under any interleaving of the requests.
ResolvedContentStays ==
    [][\A f \in Files, id \in DOMAIN commits :
          (/\ GetFileOfVersion(f, id).err = "nil"
           /\ GetFileOfVersion(f, id).val # Nil)
              => GetFileOfVersion(f, id)'.val = GetFileOfVersion(f, id).val]_vars

\* Handler p has ended a resolve that got past the checks of lines 177-188.
Walked(p) ==
    /\ Ended(p, "version")
    /\ result[p].err \notin {HeadError, VersionLength}

\* C17: every resolve ends, after at most as many steps as the history is
\* deep: the commits it looked at start at Head, each is the first parent
\* of the one before, none occurs twice, none but the last matches, and
\* the last either matches or is the root.
WalkIsBounded ==
    \A p \in Procs :
        Walked(p) =>
            LET v == log[p].visited
                n == Len(log[p].visited)
            IN  /\ n >= 1 /\ v[1] = head
                /\ n <= Cardinality(Chain(head))
                /\ \A i \in 1..(n - 1) : v[i + 1] = commits[v[i]].parent
                /\ \A i, j \in 1..n : i # j => v[i] # v[j]
                /\ \A i \in 1..(n - 1) : ~StartsWith(v[i], req[p].version)
                /\ \/ StartsWith(v[n], req[p].version) /\ log[p].rev = v[n]
                   \/ commits[v[n]].parent = NoHead /\ log[p].rev = NoHead

\* A resolve has stopped at Head, a match, and left the parent, a match
\* too, unvisited.
WalkWitness ==
    \E p \in Procs :
        /\ Walked(p)
        /\ log[p].visited = <<head>>
        /\ log[p].rev = head
        /\ commits[head].parent # NoHead
        /\ StartsWith(commits[head].parent, req[p].version)

\* The commits reachable from Head whose identifier starts with version.
Matching(version) == {id \in Chain(head) : StartsWith(id, version)}

\* The one of them nearest to Head: all the others are its ancestors.
Nearest(version) ==
    CHOOSE m \in Matching(version) : Matching(version) \subseteq Chain(m)

\* C18: when several revisions reachable from Head start with the prefix,
\* resolve reports the outcome for the one nearest to Head, the content of
\* the path there or its absence there, and looks at no older matching
\* revision, also when the path is absent in the nearest and present in an
\* older one.
FirstMatchWins ==
    \A p \in Procs :
        (Walked(p) /\ Cardinality(Matching(req[p].version)) >= 2)
            => LET m == Nearest(req[p].version)
                   c == commits[Nearest(req[p].version)].tree[req[p].fp]
               IN  /\ log[p].rev = m
                   /\ result[p].err = "nil"
                   /\ result[p].val = IF c = Absent THEN Nil ELSE c
                   /\ \A i \in 1..Len(log[p].visited) :
                         log[p].visited[i] \in Matching(req[p].version)
                             => log[p].visited[i] = m

\* C19: the revision a successful save(path, content) creates records
\* exactly content for path, also when another save to the same path runs
\* at the same time.
CommitRecordsOwnContent ==
    \A p \in Procs :
        Saved(p) =>
            \A id \in log[p].made : commits[id].tree[req[p].fp] = req[p].body

====
